---- MODULE Spec2Model ----
(***************************************************************************)
(* Vibegraph overlay (overlays/vibegraph/App.vue): the timeline buffer,    *)
(* the playback clock, the device registry and the animation loop, as the  *)
(* handlers of ws.onmessage and the requestAnimationFrame callback drive   *)
(* them.                                                                   *)
(*                                                                         *)
(* Times are virtual milliseconds.  Frame durations are multiples of 5, so *)
(* duration * 0.2 is an integer and the arithmetic of the code is exact.   *)
(* Sample values are tenths (5 stands for 0.5, 10 for 1.0); the code only  *)
(* copies them.  Device lists carry distinct names: the name is the        *)
(* identity of a device (the template keys on it, updateDevices maps by    *)
(* it).                                                                    *)
(***************************************************************************)
EXTENDS Integers, Sequences, FiniteSets, TLC

VARIABLES
    devices,      \* devices.value: the ordered list of device names
    datasets,     \* chart.data.datasets[i].data, one sample sequence per slot
    tFrameBegin,
    tFrameEnd,
    tNow,         \* tNow.value
    tTotal,       \* tTotal.value
    username,     \* username.value
    rafId,        \* 0, or the handle requestAnimationFrame returned last
    pending,      \* the number of animation callbacks scheduled and not yet run
    xMin,         \* chart.options.scales.x.min
    xMax,         \* chart.options.scales.x.max
    mounted,      \* FALSE once onUnmounted has run
    ws,           \* readyState of the socket ws refers to
    stale,        \* sockets wsConnect replaced before their close completed
    connected,    \* connected.value
    timers,       \* the number of pending setTimeout(wsConnect, 1000) timers
    lastMsg       \* history: the handler that ran last

vars == <<devices, datasets, tFrameBegin, tFrameEnd, tNow, tTotal, username,
          rafId, pending, xMin, xMax, mounted, ws, stale, connected, timers,
          lastMsg>>

----------------------------------------------------------------------------
(* Program constants *)

VISIBLE_PAST == 5000

VISIBLE_FUTURE == 5000

STEP_SMOOTHING == 100

\* LINE_COLORS.length: initChart creates one dataset per colour
NSlots == 5

Slots == 1..NSlots

----------------------------------------------------------------------------
(* Bounds of the model and the inputs the feed may deliver *)

MaxTotal == 6000

MaxEnd == 9000

MaxLen == 4

Names == {"A", "B", "C", "D", "E", "F"}

NoTarget == 0

Min(a, b) == IF a <= b THEN a ELSE b

MaxOf(S) == CHOOSE m \in S : \A n \in S : n <= m

\* device lists of update-devices messages; the last one exceeds the slots
DeviceLists ==
    { <<>>, <<"A", "B">>, <<"B", "A">>, <<"A", "B", "C", "D", "E", "F">> }

Durations == {-1000, 0, 250, 1000, 6000}

Modes == {"OVERRIDE", "EXCLUSIVE"}

Target(d, v) == [device |-> d, value |-> v]

TargetLists ==
    { <<>>, <<Target("A", 5)>>, <<Target("B", 5)>>,
      <<Target("A", 5), Target("B", 9)>>,
      <<Target("A", 5), Target("A", 9)>> }

\* VibeFrame (id is never read by the overlay)
Frames ==
    [duration : Durations, value : {9, 10}, targets : TargetLists, mode : Modes]

Frame(d, v, ts, m) == [duration |-> d, value |-> v, targets |-> ts, mode |-> m]

\* the frames the feed delivers
FeedFrames ==
    { Frame(1000, 10, <<>>, "OVERRIDE"),
      Frame(0, 10, <<>>, "OVERRIDE"),
      Frame(1000, 9, <<Target("A", 5)>>, "OVERRIDE"),
      Frame(6000, 9, <<Target("B", 5)>>, "EXCLUSIVE") }

\* the frame lists of the groups the feed delivers
GroupFrameLists ==
    LET all == Frame(1000, 10, <<>>, "OVERRIDE")
        onlyB == Frame(1000, 9, <<Target("B", 5)>>, "EXCLUSIVE")
    IN  { <<>>, <<all>>, <<onlyB, all>> }

\* VibeGroup
Groups == [username : {"", "alice"}, frames : GroupFrameLists]

Amounts == {-1000, 0, 3000}

\* wall-clock deltas performance.now() - tUpdatedAt; the clock is monotonic
Deltas == {0, 4000}

----------------------------------------------------------------------------
(* The component state as one record, so that the functions of the script  *)
(* compose as they do in the code.  redraws counts the chart.update()      *)
(* calls of the handler that is running: an output of the handler, which   *)
(* starts at 0 and is not kept between handlers.                           *)

St ==
    [devices |-> devices, datasets |-> datasets, tFrameBegin |-> tFrameBegin,
     tFrameEnd |-> tFrameEnd, tNow |-> tNow, tTotal |-> tTotal,
     username |-> username, rafId |-> rafId, pending |-> pending,
     xMin |-> xMin, xMax |-> xMax, redraws |-> 0]

Result(s, changed) == [s |-> s, ret |-> changed]

NoData == [i \in Slots |-> <<>>]

getLength(s) == Len(s.datasets[1])

isEmpty(s) == getLength(s) = 0

resetGroup(s) ==
    LET z == [s EXCEPT !.tFrameBegin = 0, !.tFrameEnd = 0, !.tNow = 0,
                       !.tTotal = 0, !.username = ""]
    IN  IF isEmpty(z)
        THEN Result(z, FALSE)
        ELSE Result([z EXCEPT !.datasets = NoData], TRUE)

----------------------------------------------------------------------------
(* Target resolution *)

RECURSIVE explicitTargets(_)
explicitTargets(targets) ==
    IF targets = <<>>
    THEN [n \in Names |-> NoTarget]
    ELSE LET t == targets[Len(targets)]
         IN  [explicitTargets(SubSeq(targets, 1, Len(targets) - 1))
                EXCEPT ![t.device] = t.value]

\* a resolver that fills missing devices whatever the mode
fillsMissing_always(mode) == TRUE

\* OVERRIDE mode fills missing devices with the frame's value
fillsMissing(mode) == mode = "OVERRIDE"

mapVibeTargets(devs, frame) ==
    LET explicit == explicitTargets(frame.targets)
        known == {devs[i] : i \in 1..Len(devs)}
    IN  [n \in Names |->
            IF explicit[n] # NoTarget THEN explicit[n]
            ELSE IF fillsMissing(frame.mode) /\ n \in known THEN frame.value
            ELSE NoTarget]

----------------------------------------------------------------------------
(* Timeline buffer *)

Sample(x, y) == [x |-> x, y |-> y]

\* a hold segment that runs to the end of the frame
holdEnd_noSmoothing(total, duration) == total + duration

\* x of the second sample of a frame: the end of its flat hold segment
holdEnd(total, duration) ==
    total + duration - Min((duration * 2) \div 10, STEP_SMOOTHING)

addFrame(s, frame) ==
    IF frame.duration <= 0 THEN Result(s, FALSE)
    ELSE
    LET targetByDevice == mapVibeTargets(s.devices, frame)
        hit == {i \in 1..Len(s.devices) :
                    i \in Slots /\ targetByDevice[s.devices[i]] # NoTarget}
        pushed == [i \in Slots |->
                     IF i \in hit
                     THEN LET v == targetByDevice[s.devices[i]]
                          IN  s.datasets[i] \o
                                <<Sample(s.tTotal, v),
                                  Sample(holdEnd(s.tTotal, frame.duration), v)>>
                     ELSE s.datasets[i]]
    IN  IF hit = {} THEN Result(s, FALSE)
        ELSE Result([s EXCEPT !.datasets = pushed,
                              !.tTotal = @ + frame.duration], TRUE)

RECURSIVE addFrames(_, _, _)
addFrames(s, frames, hasChanged) ==
    IF frames = <<>> THEN Result(s, hasChanged)
    ELSE LET r == addFrame(s, Head(frames))
         IN  addFrames(r.s, Tail(frames), r.ret \/ hasChanged)

setGroup(s, group) ==
    LET r == resetGroup(s)
        changed == r.ret \/ r.s.username # group.username
    IN  addFrames([r.s EXCEPT !.username = group.username], group.frames, changed)

advance(s, amount) ==
    IF amount <= 0 THEN Result(s, FALSE)
    ELSE Result([s EXCEPT !.tFrameBegin = s.tFrameEnd,
                          !.tFrameEnd = s.tFrameEnd + amount,
                          !.tNow = s.tFrameEnd], TRUE)

\* the number of leading points whose x is before the cutoff
RECURSIVE firstPast(_, _, _)
firstPast(data, cutoff, i) ==
    IF i < Len(data) /\ data[i + 1].x < cutoff
    THEN firstPast(data, cutoff, i + 1)
    ELSE i

\* a splice taken as soon as one point precedes the cutoff
keepsPadding_offByOne(i) == i >= 1

\* whether prune splices when i points precede the cutoff (and not all do)
keepsPadding(i) == i > 1

\* a splice that removes the i - 1 last points
spliced_tail(data, i) == SubSeq(data, 1, Len(data) - i + 1)

\* data.splice(0, i - 1): what is left when the i - 1 first points go
spliced(data, i) == SubSeq(data, i, Len(data))

pruneData(data, cutoff) ==
    IF data = <<>> THEN [data |-> data, changed |-> FALSE]
    ELSE LET i == firstPast(data, cutoff, 0)
         IN  IF i = Len(data) THEN [data |-> <<>>, changed |-> TRUE]
             ELSE IF keepsPadding(i)
                  THEN [data |-> spliced(data, i), changed |-> TRUE]
                  ELSE [data |-> data, changed |-> FALSE]

prune(s) ==
    LET cutoff == s.tNow - VISIBLE_PAST
        p == [i \in Slots |-> pruneData(s.datasets[i], cutoff)]
    IN  Result([s EXCEPT !.datasets = [i \in Slots |-> p[i].data]],
               \E i \in Slots : p[i].changed)

\* a tick without the clamp
tickNow_unclamped(now, dt, frameEnd) == now + dt

\* a tick that leaves the cursor where it is
tickNow_stuck(now, dt, frameEnd) == now

\* the clock after a tick of dt that found it short of tFrameEnd
tickNow(now, dt, frameEnd) == Min(now + dt, frameEnd)

\* update(advance): dt is performance.now() - tUpdatedAt
update(s, adv, dt) ==
    IF dt <= 0 THEN Result(s, FALSE)
    ELSE
    LET moved == adv /\ s.tNow < s.tFrameEnd
        now == tickNow(s.tNow, dt, s.tFrameEnd)
        ticked == IF moved
                  THEN [s EXCEPT !.tNow = now,
                                 !.xMin = now - VISIBLE_PAST,
                                 !.xMax = now + VISIBLE_FUTURE]
                  ELSE s
        p == prune(ticked)
        hasChanged == p.ret \/ moved
    IN  Result(IF hasChanged THEN [p.s EXCEPT !.redraws = @ + 1] ELSE p.s,
               hasChanged)

----------------------------------------------------------------------------
(* Reading a value off a curve *)

\* null
NoValue == -1

\* the loop of getChartValueAtTime from point k on, last being the value of
\* the point it passed last
RECURSIVE valueFrom(_, _, _, _)
valueFrom(data, time, k, last) ==
    IF k > Len(data) \/ data[k].x > time
    THEN last
    ELSE valueFrom(data, time, k + 1, data[k].y)

getChartValueAtTime(data, time) == valueFrom(data, time, 1, NoValue)

----------------------------------------------------------------------------
(* Animation loop *)

\* requestAnimationFrame hands out a non-zero handle
RafHandle == 1

updateLoop(s, dt) ==
    IF isEmpty(s)
    THEN resetGroup([s EXCEPT !.rafId = 0]).s
    ELSE [update(s, TRUE, dt).s EXCEPT !.rafId = RafHandle,
                                       !.pending = @ + 1]

\* a start that does not look at rafId
startUpdateLoop_unguarded(s, dt) == updateLoop(s, dt)

startUpdateLoop(s, dt) ==
    IF s.rafId # 0 THEN s ELSE updateLoop(s, dt)

----------------------------------------------------------------------------
(* Device registry *)

\* a registry that leaves each slot's data where it was
slotData_positional(s, kept, i) == s.datasets[i]

\* the data that slot i of the new list takes over: the old data of its name
slotData(s, kept, i) ==
    LET idx == {k \in 1..Len(s.devices) : k \in Slots /\ s.devices[k] = kept[i]}
    IN  IF idx = {} THEN <<>> ELSE s.datasets[MaxOf(idx)]

updateDevices(s, updatedDevices) ==
    IF updatedDevices = s.devices THEN Result(s, FALSE)
    ELSE
    LET kept == SubSeq(updatedDevices, 1, Min(Len(updatedDevices), NSlots))
        rebuilt == [i \in Slots |->
                      IF i <= Len(kept) THEN slotData(s, kept, i) ELSE <<>>]
    IN  Result([s EXCEPT !.devices = kept, !.datasets = rebuilt], TRUE)

----------------------------------------------------------------------------
(* ws.onmessage, one operator per message type: the state the handler      *)
(* leaves.  dt1 is the delta update() sees inside startUpdateLoop, dt the  *)
(* delta the closing update(false) sees.                                   *)

\* the handler's tail: if (doUpdate) update(false)
finish(s, doUpdate, dt) == IF doUpdate THEN update(s, FALSE, dt).s ELSE s

onUpdateDevices(s, updatedDevices, dt) ==
    LET r == updateDevices(s, updatedDevices) IN finish(r.s, r.ret, dt)

onResetGroup(s) == resetGroup(s).s

onSetGroup(s, group, dt1, dt) ==
    LET r == setGroup(s, group) IN finish(startUpdateLoop(r.s, dt1), r.ret, dt)

onAddFrame(s, frame, dt1, dt) ==
    LET r == addFrame(s, frame) IN finish(startUpdateLoop(r.s, dt1), r.ret, dt)

onAdvance(s, amount, dt) ==
    LET r == advance(s, amount) IN finish(r.s, r.ret, dt)

WithinBounds(s) ==
    /\ s.tTotal <= MaxTotal
    /\ s.tFrameEnd <= MaxEnd
    /\ \A i \in Slots : Len(s.datasets[i]) <= MaxLen

\* the handler's result is computed once and becomes the state
Become(s, msg) ==
    \E after \in {s} :
        /\ devices' = after.devices
        /\ datasets' = after.datasets
        /\ tFrameBegin' = after.tFrameBegin
        /\ tFrameEnd' = after.tFrameEnd
        /\ tNow' = after.tNow
        /\ tTotal' = after.tTotal
        /\ username' = after.username
        /\ rafId' = after.rafId
        /\ pending' = after.pending
        /\ xMin' = after.xMin
        /\ xMax' = after.xMax
        /\ lastMsg' = msg

\* a message is delivered to ws.onmessage only while the socket is open
Receive(s, msg) ==
    /\ ws = "open"
    /\ Become(s, msg)
    /\ UNCHANGED <<mounted, ws, stale, connected, timers>>

UpdateDevicesOf(lists) ==
    \E ds \in lists, dt \in Deltas :
        Receive(onUpdateDevices(St, ds, dt), "update-devices")

ResetGroupMsg ==
    Receive(onResetGroup(St), "reset-group")

SetGroupOf(groups) ==
    \E g \in groups, dt1 \in Deltas, dt \in Deltas :
        /\ WithinBounds(setGroup(St, g).s)
        /\ Receive(onSetGroup(St, g, dt1, dt), "set-group")

AddFrameOf(frames) ==
    \E f \in frames, dt1 \in Deltas, dt \in Deltas :
        /\ WithinBounds(addFrame(St, f).s)
        /\ Receive(onAddFrame(St, f, dt1, dt), "add-frame")

AdvanceOf(amounts) ==
    \E amount \in amounts, dt \in Deltas :
        /\ WithinBounds(advance(St, amount).s)
        /\ Receive(onAdvance(St, amount, dt), "advance")

UpdateDevicesMsg == UpdateDevicesOf(DeviceLists)

SetGroupMsg == SetGroupOf(Groups)

AddFrameMsg == AddFrameOf(FeedFrames)

AdvanceMsg == AdvanceOf(Amounts)

\* a scheduled requestAnimationFrame callback runs updateLoop
AnimationFrame ==
    /\ pending > 0
    /\ \E dt \in Deltas :
          Become(updateLoop([St EXCEPT !.pending = @ - 1], dt),
                 "animation-frame")
    /\ UNCHANGED <<mounted, ws, stale, connected, timers>>

----------------------------------------------------------------------------
(* Connection and component lifecycle *)

Live == {"connecting", "open"}

\* ws?.close(): a socket that is connecting or open starts closing
close(state) == IF state \in Live THEN "closing" ELSE state

\* ws.onopen
WsOpen ==
    /\ ws = "connecting"
    /\ ws' = "open"
    /\ connected' = TRUE
    /\ lastMsg' = "open"
    /\ UNCHANGED <<devices, datasets, tFrameBegin, tFrameEnd, tNow, tTotal,
                   username, rafId, pending, xMin, xMax, mounted, stale,
                   timers>>

\* an onclose that arms two reconnects
armReconnect_twice(t) == t + 2

\* the timers pending after the setTimeout(wsConnect, 1000) of ws.onclose
armReconnect(t) == t + 1

\* ws.onclose of the current socket or of a replaced one: the server drops
\* the connection, an attempt fails, or a close() of the component completes
WsClose ==
    /\ \E sock \in {"ws", "replaced"} :
          IF sock = "ws"
          THEN /\ ws \in Live \cup {"closing"}
               /\ ws' = "closed"
               /\ stale' = stale
          ELSE /\ stale > 0
               /\ stale' = stale - 1
               /\ ws' = ws
    /\ connected' = FALSE
    /\ timers' = armReconnect(timers)
    /\ lastMsg' = "close"
    /\ UNCHANGED <<devices, datasets, tFrameBegin, tFrameEnd, tNow, tTotal,
                   username, rafId, pending, xMin, xMax, mounted>>

\* a reconnect timer fires and runs wsConnect: ws?.close(), then ws is a
\* new socket
TimerFires ==
    /\ timers > 0
    /\ timers' = timers - 1
    /\ stale' = IF close(ws) = "closing" THEN stale + 1 ELSE stale
    /\ ws' = "connecting"
    /\ lastMsg' = "reconnect"
    /\ UNCHANGED <<devices, datasets, tFrameBegin, tFrameEnd, tNow, tTotal,
                   username, rafId, pending, xMin, xMax, mounted, connected>>

\* cancelAnimationFrame(rafId) unschedules the callback rafId names, if any
cancelAnimationFrame(handle, scheduled) ==
    IF handle # 0 /\ scheduled > 0 THEN scheduled - 1 ELSE scheduled

\* onUnmounted: ws?.close(); cancelAnimationFrame(rafId)
Unmount ==
    /\ mounted
    /\ mounted' = FALSE
    /\ ws' = close(ws)
    /\ pending' = cancelAnimationFrame(rafId, pending)
    /\ lastMsg' = "unmounted"
    /\ UNCHANGED <<devices, datasets, tFrameBegin, tFrameEnd, tNow, tTotal,
                   username, rafId, xMin, xMax, stale, connected, timers>>

\* after onMounted: the chart exists and wsConnect has opened a socket
Init ==
    /\ devices = <<>>
    /\ datasets = NoData
    /\ tFrameBegin = 0
    /\ tFrameEnd = 0
    /\ tNow = 0
    /\ tTotal = 0
    /\ username = ""
    /\ rafId = 0
    /\ pending = 0
    /\ xMin = -VISIBLE_PAST
    /\ xMax = VISIBLE_FUTURE
    /\ mounted = TRUE
    /\ ws = "connecting"
    /\ stale = 0
    /\ connected = FALSE
    /\ timers = 0
    /\ lastMsg = "mounted"

\* one session of the feed: the socket opens and stays open
Next ==
    \/ WsOpen
    \/ UpdateDevicesMsg
    \/ ResetGroupMsg
    \/ SetGroupMsg
    \/ AddFrameMsg
    \/ AdvanceMsg
    \/ AnimationFrame

Spec == Init /\ [][Next]_vars

TypeOK ==
    /\ devices \in Seq(Names) /\ Len(devices) <= NSlots
    /\ \A i, j \in 1..Len(devices) : devices[i] = devices[j] => i = j
    /\ rafId \in {0, RafHandle}
    /\ pending \in Nat /\ timers \in Nat /\ stale \in Nat
    /\ ws \in Live \cup {"closing", "closed"}
    /\ mounted \in BOOLEAN /\ connected \in BOOLEAN
    /\ WithinBounds(St)

----------------------------------------------------------------------------
(* The component through disconnects, reconnects and teardown, on a feed   *)
(* of one device list, one group, two frames and one advance amount.       *)

LifeDevices == { <<"A", "B">> }

LifeFrames ==
    { Frame(1000, 10, <<>>, "OVERRIDE"),
      Frame(6000, 9, <<Target("B", 5)>>, "EXCLUSIVE") }

LifeGroups ==
    [username : {"alice"}, frames : { <<Frame(1000, 10, <<>>, "OVERRIDE")>> }]

LifeAmounts == {3000}

LifeNext ==
    \/ WsOpen
    \/ WsClose
    \/ TimerFires
    \/ Unmount
    \/ UpdateDevicesOf(LifeDevices)
    \/ ResetGroupMsg
    \/ SetGroupOf(LifeGroups)
    \/ AddFrameOf(LifeFrames)
    \/ AdvanceOf(LifeAmounts)
    \/ AnimationFrame

\* the browser fires a pending timer
LifeSpec == Init /\ [][LifeNext]_vars /\ WF_vars(TimerFires)

----------------------------------------------------------------------------
(* The mounted component on the same feed, with animation callbacks that   *)
(* are delivered while the wall clock advances.                            *)

ClockNext ==
    \/ WsOpen
    \/ UpdateDevicesOf(LifeDevices)
    \/ ResetGroupMsg
    \/ SetGroupOf(LifeGroups)
    \/ AddFrameOf(LifeFrames)
    \/ AdvanceOf(LifeAmounts)
    \/ AnimationFrame

\* a requestAnimationFrame callback that finds the wall clock advanced
PositiveFrame ==
    /\ pending > 0
    /\ \E dt \in Deltas \ {0} :
          Become(updateLoop([St EXCEPT !.pending = @ - 1], dt),
                 "animation-frame")
    /\ UNCHANGED <<mounted, ws, stale, connected, timers>>

\* the browser runs a pending animation callback, and time has passed
ClockSpec == Init /\ [][ClockNext]_vars /\ WF_vars(PositiveFrame)

----------------------------------------------------------------------------
(* Properties *)

Cutoff == tNow - VISIBLE_PAST

Monotonic(data) == \A k \in 1..(Len(data) - 1) : data[k].x <= data[k + 1].x

\* C1: in every reachable state the sample times of every device slot's
\* sequence are non-decreasing in sequence order.
C1_MonotonicTime == \A i \in Slots : Monotonic(datasets[i])

\* C2: frameBegin <= now <= frameEnd in every reachable state; a tick never
\* moves now past frameEnd.
C2_ClockBound == tFrameBegin <= tNow /\ tNow <= tFrameEnd

\* a tick whose delta exceeded what was left of the frame, and was clamped
C2_ClampedTick ==
    /\ lastMsg = "animation-frame"
    /\ tNow = tFrameEnd
    /\ tFrameBegin < tNow
    /\ \A dt \in Deltas \ {0} : tFrameEnd - tFrameBegin < dt

\* C3: once an advance has opened a frame, frameEnd <= total: the target
\* end-time never exceeds the summed duration of the frames appended since
\* the last reset.
C3_EndWithinTotal == tFrameEnd > 0 => tFrameEnd <= tTotal

\* prune keeps its promise on every sequence that is ordered by time
PruneInvariantWhenMonotonic ==
    C1_MonotonicTime =>
        LET p == prune(St).s
        IN  \A i \in Slots :
                \A k \in 2..Len(p.datasets[i]) : p.datasets[i][k].x >= Cutoff

\* C4: after prune, in every slot every remaining sample but possibly the
\* first has time >= now - VISIBLE_PAST, and at most one remaining sample
\* has a time below that cutoff.
C4_PruneInvariant ==
    LET p == prune(St).s
    IN  \A i \in Slots :
            /\ \A k \in 2..Len(p.datasets[i]) : p.datasets[i][k].x >= Cutoff
            /\ Cardinality({k \in 1..Len(p.datasets[i]) :
                                p.datasets[i][k].x < Cutoff}) <= 1

\* C5: prune is idempotent: a second prune with the same now removes no
\* sample from any slot and reports changed = false.
C5_PruneIdempotent ==
    LET p == prune(St)
        q == prune(p.s)
    IN  /\ q.ret = FALSE
        /\ q.s.datasets = p.s.datasets

\* a state in which the first prune splices a slot down to its padding
\* point and the points past the cutoff
C5_PruneSplices ==
    \E i \in Slots :
        LET p == prune(St).s.datasets[i]
        IN  /\ p # <<>>
            /\ Len(p) < Len(datasets[i])
            /\ p[1].x < Cutoff

\* C6: resetGroup leaves every slot empty and frameBegin, frameEnd, now and
\* total zero, and returns true exactly when some slot was non-empty.
C6_ResetClears ==
    LET r == resetGroup(St)
    IN  /\ \A i \in Slots : r.s.datasets[i] = <<>>
        /\ r.s.tFrameBegin = 0 /\ r.s.tFrameEnd = 0
        /\ r.s.tNow = 0 /\ r.s.tTotal = 0
        /\ r.ret <=> \E i \in Slots : datasets[i] # <<>>

Cleared(s) ==
    [s EXCEPT !.datasets = NoData, !.tFrameBegin = 0, !.tFrameEnd = 0,
              !.tNow = 0, !.tTotal = 0, !.username = ""]

\* C7: after a set-group message is handled every slot holds only the
\* samples of that group's frames, appended in order from time 0, and total
\* is the sum of the durations of the group's frames that were applied.
C7_SetGroupReplaces ==
    \A g \in Groups : \A dt1 \in Deltas, dt \in Deltas :
        LET after == onSetGroup(St, g, dt1, dt)
            replay == addFrames(Cleared(St), g.frames, FALSE).s
        IN  /\ after.datasets = replay.datasets
            /\ after.tTotal = replay.tTotal

\* C8: for a frame of duration > 0, addFrame appends to each known device
\* with a resolved target the two samples (total, v) and
\* (total + duration - min(0.2 * duration, 100), v), and nothing to any
\* other slot; total grows by duration and the call returns true if some
\* device received a target, otherwise nothing changes and it returns false.
C8_AppendFrame ==
    /\ \A f \in Frames : f.duration > 0 =>
        LET r == addFrame(St, f)
            v == mapVibeTargets(devices, f)
            resolved == {i \in 1..Len(devices) : v[devices[i]] # NoTarget}
            second == tTotal + f.duration - Min(f.duration \div 5, 100)
        IN  /\ \A i \in Slots :
                 r.s.datasets[i] =
                    IF i \in resolved
                    THEN datasets[i] \o << [x |-> tTotal, y |-> v[devices[i]]],
                                          [x |-> second, y |-> v[devices[i]]] >>
                    ELSE datasets[i]
            /\ r.ret <=> resolved # {}
            /\ r.s.tTotal = IF resolved # {} THEN tTotal + f.duration
                            ELSE tTotal
    /\ LET r == addFrame([Cleared(St) EXCEPT !.devices = <<"A">>],
                         Frame(1000, 10, <<>>, "OVERRIDE"))
       IN  /\ r.s.datasets[1] = << [x |-> 0, y |-> 10], [x |-> 900, y |-> 10] >>
           /\ r.s.tTotal = 1000

\* an add-frame message has appended a frame to a slot that held data
C8_FrameAppended ==
    /\ lastMsg = "add-frame"
    /\ \E i \in Slots :
          /\ Len(datasets[i]) = 4
          /\ datasets[i][3].x = datasets[i][2].x + 100
          /\ datasets[i][4].x = tTotal - 100

Listed(f, n) == {k \in 1..Len(f.targets) : f.targets[k].device = n}

Known == {devices[i] : i \in 1..Len(devices)}

\* C9: a device listed in frame.targets resolves to its listed value, the
\* last entry winning; a known device not listed resolves to frame.value
\* in OVERRIDE mode and to nothing in EXCLUSIVE mode.
C9_TargetResolution ==
    /\ \A f \in Frames :
        LET m == mapVibeTargets(devices, f)
        IN  \A n \in Names :
            IF Listed(f, n) # {}
            THEN m[n] = f.targets[MaxOf(Listed(f, n))].value
            ELSE IF n \in Known /\ f.mode = "OVERRIDE"
                 THEN m[n] = f.value
                 ELSE m[n] = NoTarget
    /\ \A mode \in Modes :
        LET m == mapVibeTargets(<<"A", "B">>,
                                Frame(1000, 9, <<Target("A", 5)>>, mode))
        IN  /\ m["A"] = 5
            /\ m["B"] = IF mode = "OVERRIDE" THEN 9 ELSE NoTarget

\* an OVERRIDE frame has given its listed device the listed value and the
\* other known device the frame's value
C9_OverrideApplied ==
    /\ lastMsg = "add-frame"
    /\ Len(devices) = 2
    /\ \E a, b \in Slots :
          /\ datasets[a] # <<>> /\ datasets[b] # <<>>
          /\ datasets[a][Len(datasets[a])].y = 5
          /\ datasets[b][Len(datasets[b])].y = 9
          /\ datasets[a][Len(datasets[a])].x = datasets[b][Len(datasets[b])].x

\* device lists an update may carry: the lists of the feed and every list
\* of up to two distinct names among A, B, C
UpdateLists ==
    DeviceLists
      \cup {<<n>> : n \in {"A", "B", "C"}}
      \cup {<<p[1], p[2]>> :
                p \in {q \in {"A", "B", "C"} \X {"A", "B", "C"} : q[1] # q[2]}}

\* C10: an update with a list that differs from the current one leaves the
\* slot of every name present before and after with exactly the sequence
\* its old slot held, the slots of new names empty and every slot past the
\* new device count empty; the device list never exceeds the slot count.
C10_DeviceRemap ==
    /\ Len(devices) <= NSlots
    /\ \A nd \in UpdateLists : nd # devices =>
        LET r == updateDevices(St, nd)
            n == Len(r.s.devices)
        IN  /\ r.ret
            /\ n = Min(Len(nd), NSlots)
            /\ \A j \in 1..n : r.s.devices[j] = nd[j]
            /\ \A j \in 1..n :
                 /\ \A i \in 1..Len(devices) :
                        devices[i] = nd[j] => r.s.datasets[j] = datasets[i]
                 /\ nd[j] \notin Known => r.s.datasets[j] = <<>>
            /\ \A j \in Slots : j > n => r.s.datasets[j] = <<>>

\* an update has swapped two devices whose slots hold different data
C10_Swapped ==
    /\ lastMsg = "update-devices"
    /\ devices = <<"B", "A">>
    /\ datasets[1] # <<>> /\ datasets[2] # <<>>
    /\ datasets[1] # datasets[2]

----------------------------------------------------------------------------
(* Message handling *)

\* the data, the clock, the username and the device list are those of the
\* current state
Untouched(s) ==
    /\ s.datasets = datasets
    /\ s.tFrameBegin = tFrameBegin /\ s.tFrameEnd = tFrameEnd
    /\ s.tNow = tNow /\ s.tTotal = tTotal
    /\ s.username = username
    /\ s.devices = devices

\* C11: handling an add-frame message whose frame has duration <= 0, or an
\* advance message with amount <= 0, reports changed = false and leaves
\* every device sequence, the clock, the username and the device list
\* unchanged, in every reachable state.
C11_MalformedNoOp ==
    /\ \A f \in FeedFrames : f.duration <= 0 =>
          /\ ~addFrame(St, f).ret
          /\ \A dt1 \in Deltas, dt \in Deltas :
                Untouched(onAddFrame(St, f, dt1, dt))
    /\ \A amount \in Amounts : amount <= 0 =>
          /\ ~advance(St, amount).ret
          /\ \A dt \in Deltas : Untouched(onAdvance(St, amount, dt))

\* the chart.update() calls of the `if (doUpdate) update(false)` that ends
\* ws.onmessage
immediateRedraws(s, doUpdate, dt) == finish(s, doUpdate, dt).redraws - s.redraws

\* C12: for every message kind, whenever the dispatched operation reports
\* changed = true, the handler performs one chart redraw before it returns,
\* outside the animation loop.
C12_RedrawOnChange ==
    /\ \A ds \in DeviceLists, dt \in Deltas :
          LET r == updateDevices(St, ds)
          IN  r.ret => immediateRedraws(r.s, r.ret, dt) = 1
    /\ resetGroup(St).ret => onResetGroup(St).redraws = 1
    /\ \A g \in Groups, dt1 \in Deltas, dt \in Deltas :
          LET r == setGroup(St, g)
          IN  r.ret =>
                immediateRedraws(startUpdateLoop(r.s, dt1), r.ret, dt) = 1
    /\ \A f \in FeedFrames, dt1 \in Deltas, dt \in Deltas :
          LET r == addFrame(St, f)
          IN  r.ret =>
                immediateRedraws(startUpdateLoop(r.s, dt1), r.ret, dt) = 1
    /\ \A amount \in Amounts, dt \in Deltas :
          LET r == advance(St, amount)
          IN  r.ret => immediateRedraws(r.s, r.ret, dt) = 1

----------------------------------------------------------------------------
(* Connection and teardown *)

\* C13: after onUnmounted there is no open or connecting feed connection,
\* no reconnect is pending or attempted, and no animation callback is
\* pending or runs.
C13_TeardownQuiet ==
    ~mounted =>
        /\ ws \notin Live
        /\ timers = 0
        /\ pending = 0
        /\ lastMsg \notin {"reconnect", "animation-frame"}

\* the sockets whose close has not completed
Sockets == (IF ws = "closed" THEN 0 ELSE 1) + stale

\* C14: while the component is mounted every disconnect or failed attempt
\* is eventually followed by a new connection attempt, however many came
\* before; at every moment at most one connection exists and at most one
\* reconnect timer is pending, a pending timer finds no connection, and
\* connected is true only while the current connection is open.
C14_Reconnects ==
    /\ [](/\ Sockets <= 1
          /\ timers <= 1
          /\ timers > 0 => Sockets = 0
          /\ mounted /\ connected => ws = "open")
    /\ [](mounted /\ ws = "closed" => <>(ws = "connecting" \/ ~mounted))

\* a connection attempt made by the reconnect timer of a component that
\* had received a group before the connection was lost
C14_Reconnected ==
    /\ mounted
    /\ lastMsg = "reconnect"
    /\ ws = "connecting"
    /\ timers = 0
    /\ username = "alice"

----------------------------------------------------------------------------
(* Animation loop *)

SomeData == \E i \in Slots : datasets[i] # <<>>

\* C15: whenever a set-group or add-frame message has been handled and some
\* device sequence is non-empty afterwards, an animation callback is
\* pending.
C15_LoopArmed ==
    lastMsg \in {"set-group", "add-frame"} /\ SomeData =>
        rafId # 0 /\ pending > 0

\* C16: an animation callback that finds every device sequence empty leaves
\* no callback pending, rafId = 0, the clock fields zero and the username
\* cleared; and a callback never leaves rafId = 0 while some device sequence
\* is non-empty.
C16_LoopStops ==
    [][lastMsg' = "animation-frame" =>
          /\ ~SomeData =>
                /\ rafId' = 0 /\ pending' = 0
                /\ tFrameBegin' = 0 /\ tFrameEnd' = 0
                /\ tNow' = 0 /\ tTotal' = 0
                /\ username' = ""
          /\ rafId' = 0 => \A i \in Slots : datasets'[i] = <<>>]_vars

----------------------------------------------------------------------------
(* The curve *)

\* query times around every sample of a sequence and around the window
QueryTimes(data) ==
    {-1, 0, Cutoff - 1, Cutoff, Cutoff + 1, tNow, tNow + VISIBLE_FUTURE}
      \cup {data[k].x + d : k \in 1..Len(data), d \in {-1, 0, 1}}

\* C19: for every device sequence of a reachable state and every query
\* time t, getChartValueAtTime returns the value of the last sample of the
\* sequence whose time is <= t, and null exactly when no sample has
\* time <= t.
C19_ValueAtTime ==
    \A i \in Slots : \A t \in QueryTimes(datasets[i]) :
        LET data == datasets[i]
            upTo == {k \in 1..Len(data) : data[k].x <= t}
            got == getChartValueAtTime(data, t)
        IN  /\ got = NoValue <=> upTo = {}
            /\ upTo # {} => got = data[MaxOf(upTo)].y

\* getChartValueAtTime keeps its promise on every sequence that is ordered
\* by time
ValueAtTimeWhenMonotonic == C1_MonotonicTime => C19_ValueAtTime

IsSuffix(a, b) ==
    /\ Len(a) <= Len(b)
    /\ a = SubSeq(b, Len(b) - Len(a) + 1, Len(b))

\* C20: prune leaves in every slot a suffix of what the slot held, and for
\* every slot with a sample at or past the cutoff now - VISIBLE_PAST and
\* every t at or past the cutoff, getChartValueAtTime at t is the same
\* before and after prune.
C20_PrunePreservesCurve ==
    LET p == prune(St).s
    IN  \A i \in Slots :
           /\ IsSuffix(p.datasets[i], datasets[i])
           /\ (\E k \in 1..Len(datasets[i]) : datasets[i][k].x >= Cutoff) =>
                 \A t \in QueryTimes(datasets[i]) : t >= Cutoff =>
                    getChartValueAtTime(p.datasets[i], t)
                      = getChartValueAtTime(datasets[i], t)

\* a slot from which prune removes samples while it holds a sample past
\* the cutoff; the value at the cutoff is that of a sample prune kept
C20_WindowKept ==
    \E i \in Slots :
        LET p == prune(St).s.datasets[i]
        IN  /\ \E k \in 1..Len(datasets[i]) : datasets[i][k].x >= Cutoff
            /\ Len(p) < Len(datasets[i])
            /\ getChartValueAtTime(p, Cutoff) # NoValue

----------------------------------------------------------------------------
(* Playback *)

\* the values frameEnd takes on the feed of ClockSpec
FrameEnds == UNION {{a * k : k \in 1..(MaxEnd \div a)} : a \in LifeAmounts}

\* C17: once an advance has been handled and left now before frameEnd
\* while an animation callback is pending, callbacks with a positive delta
\* bring now to frameEnd unless a later advance, set-group or reset-group
\* moves frameEnd first; and once now equals frameEnd only an advance
\* separates them.
C17_ClockProgress ==
    /\ \A e \in FrameEnds :
          [](lastMsg = "advance" /\ tFrameEnd = e /\ tNow < e /\ pending > 0
                => <>(tNow = tFrameEnd \/ tFrameEnd # e))
    /\ [][tNow = tFrameEnd /\ tNow' # tFrameEnd' => lastMsg' = "advance"]_vars

\* callbacks have brought now to the end of the frame an advance opened
C17_Arrived ==
    /\ lastMsg = "animation-frame"
    /\ tNow = tFrameEnd
    /\ tFrameBegin < tFrameEnd
    /\ pending > 0

\* C18: after every animation-loop iteration with a positive delta the
\* chart's x-window is [now - VISIBLE_PAST, now + VISIBLE_FUTURE] for the
\* current now, whatever preceded the iteration.
C18_WindowFollowsNow ==
    pending > 0 /\ ~isEmpty(St) =>
        \A dt \in Deltas : dt > 0 =>
            LET u == updateLoop(St, dt)
            IN  /\ u.xMin = u.tNow - VISIBLE_PAST
                /\ u.xMax = u.tNow + VISIBLE_FUTURE

\* C21: at most one animation callback is pending at any time, rafId is
\* non-zero exactly when a callback is pending, and startUpdateLoop
\* schedules nothing while a callback is pending.
C21_SingleCallback ==
    /\ pending <= 1
    /\ rafId # 0 <=> pending > 0
    /\ pending > 0 =>
          \A dt \in Deltas : startUpdateLoop(St, dt).pending = pending

\* an add-frame handled while the loop was running: slot 0 holds two
\* frames and one callback is pending
C21_StartedWhileRunning ==
    /\ lastMsg = "add-frame"
    /\ Len(datasets[1]) = 4
    /\ rafId # 0
    /\ pending = 1

====
